---- MODULE Spec2Model ----
(***************************************************************************)
(* ImportReformat: the contact-sheet reformatter.  A spreadsheet row is    *)
(* mapped onto a fixed contact record by ContactDataProcessor.formatRow;   *)
(* processFile maps every row of the first sheet; the Home component keeps *)
(* the selected file and the last result.                                  *)
(*                                                                         *)
(* The repository holds three revisions of formatRow:                      *)
(*   "keyword"    src/src/app/page.tsx:46-111   (getColumnValue lookups,   *)
(*                                               permissive passthrough)   *)
(*   "positional" src/src/app/page.tsx:223-278  (columns by position,      *)
(*                                               address split, stage      *)
(*                                               validation)               *)
(*   "heuristic"  src/unnamed/part_000:58-133   (keyword lists for DOB and *)
(*                                               phone, strict passthrough)*)
(*                                                                         *)
(* JavaScript strings are sequences of one-character strings, so that      *)
(* toLowerCase, includes, trim, split and join are computed, not assumed.  *)
(***************************************************************************)
EXTENDS Integers, Sequences, FiniteSets, Bags, TLC

VARIABLES rev, tz, file, processedData, reads, last, row, out

vars == <<rev, tz, file, processedData, reads, last, row, out>>

----
(* String literals of the source, as character sequences. *)

K_FirstName == <<"F","i","r","s","t","N","a","m","e">>

K_LastName == <<"L","a","s","t","N","a","m","e">>

K_Email == <<"E","m","a","i","l">>

K_Phone == <<"P","h","o","n","e">>

K_Street == <<"S","t","r","e","e","t">>

K_City == <<"C","i","t","y">>

K_ProvinceState == <<"P","r","o","v","i","n","c","e","S","t","a","t","e">>

K_PostalCodeZip == <<"P","o","s","t","a","l","C","o","d","e","Z","i","p">>

K_Address == <<"A","d","d","r","e","s","s">>

K_Province == <<"P","r","o","v","i","n","c","e">>

K_PostalCode == <<"P","o","s","t","a","l","C","o","d","e">>

K_DateOfBirth == <<"D","a","t","e","O","f","B","i","r","t","h">>

K_BorrowerStage == <<"B","o","r","r","o","w","e","r","S","t","a","g","e",".","N","a","m","e">>

K_PartnerType == <<"P","a","r","t","n","e","r","T","y","p","e",".","N","a","m","e">>

K_LeadSource == <<"L","e","a","d","S","o","u","r","c","e">>

K_Campaign == <<"C","a","m","p","a","i","g","n">>

K_TempNote == <<"T","e","m","p","N","o","t","e">>

K_FirmName == <<"F","i","r","m","N","a","m","e">>

W_FirstName == <<"F","i","r","s","t"," ","n","a","m","e">>

W_LastName == <<"L","a","s","t"," ","n","a","m","e">>

W_DateRegistered == <<"D","a","t","e"," ","R","e","g","i","s","t","e","r","e","d">>

W_PhoneNumber == <<"P","h","o","n","e"," ","n","u","m","b","e","r">>

W_CompanyName == <<"C","o","m","p","a","n","y"," ","n","a","m","e">>

W_Profession == <<"P","r","o","f","e","s","s","i","o","n">>

W_Tag == <<"T","a","g">>

W_birth == <<"b","i","r","t","h">>

W_dob == <<"d","o","b">>

W_dateofbirth == <<"d","a","t","e"," ","o","f"," ","b","i","r","t","h">>

W_birthdate == <<"b","i","r","t","h"," ","d","a","t","e">>

W_phone == <<"p","h","o","n","e">>

W_mobile == <<"m","o","b","i","l","e">>

W_contact == <<"c","o","n","t","a","c","t">>

W_telephone == <<"t","e","l","e","p","h","o","n","e">>

ST_ActiveLead == <<"A","c","t","i","v","e"," ","L","e","a","d">>

ST_BusinessPartnerOnly == <<"B","u","s","i","n","e","s","s"," ","P","a","r","t","n","e","r"," ","O","n","l","y">>

ST_Prospect == <<"P","r","o","s","p","e","c","t">>

ST_Client == <<"C","l","i","e","n","t">>

VALID_STAGES == <<ST_ActiveLead, ST_BusinessPartnerOnly, ST_Prospect, ST_Client>>

DEFAULT_STAGE == ST_Prospect

----
(* JavaScript values: a string, a number, or undefined. *)

Str(s) == [k |-> "str", s |-> s, n |-> 0]

Num(n) == [k |-> "num", s |-> <<>>, n |-> n]

Undefined == [k |-> "undef", s |-> <<>>, n |-> 0]

EmptyStr == Str(<<>>)

IsStr(v) == v.k = "str"

IsNum(v) == v.k = "num"

\* ToBoolean: "" , 0 and undefined are falsy.
Truthy(v) ==
    CASE v.k = "str" -> Len(v.s) > 0
      [] v.k = "num" -> v.n # 0
      [] OTHER -> FALSE

\* a || ""
OrEmpty(v) == IF Truthy(v) THEN v ELSE EmptyStr

Digits == <<"0","1","2","3","4","5","6","7","8","9">>

RECURSIVE NatToStr(_)
\* Number.prototype.toString for a non-negative integer.
NatToStr(n) ==
    IF n < 10 THEN <<Digits[n + 1]>>
    ELSE NatToStr(n \div 10) \o <<Digits[(n % 10) + 1]>>

\* ToString, as applied by the + operator and by .toString().
ToStr(v) ==
    CASE v.k = "str" -> v.s
      [] v.k = "num" -> IF v.n < 0 THEN <<"-">> \o NatToStr(0 - v.n) ELSE NatToStr(v.n)
      [] OTHER -> <<"u","n","d","e","f","i","n","e","d">>

----
(* String.prototype methods. *)

Uppers == <<"A","B","C","D","E","F","G","H","I","J","K","L","M",
            "N","O","P","Q","R","S","T","U","V","W","X","Y","Z">>

Lowers == <<"a","b","c","d","e","f","g","h","i","j","k","l","m",
            "n","o","p","q","r","s","t","u","v","w","x","y","z">>

UpperSet == {Uppers[i] : i \in 1..Len(Uppers)}

LowerOf == [c \in UpperSet |-> Lowers[CHOOSE i \in 1..Len(Uppers) : Uppers[i] = c]]

LowerChar(c) == IF c \in UpperSet THEN LowerOf[c] ELSE c

toLowerCase(s) == [i \in 1..Len(s) |-> LowerChar(s[i])]

\* s.includes(t)
includes(s, t) ==
    \E i \in 0..(Len(s) - Len(t)) : SubSeq(s, i + 1, i + Len(t)) = t

\* WhiteSpace and LineTerminator code points that occur in the inputs.
WhiteSpace == {" ", "\t", "\n"}

RECURSIVE trimStart(_)
trimStart(s) ==
    IF s # <<>> /\ Head(s) \in WhiteSpace THEN trimStart(Tail(s)) ELSE s

RECURSIVE trimEnd(_)
trimEnd(s) ==
    IF s # <<>> /\ s[Len(s)] \in WhiteSpace
    THEN trimEnd(SubSeq(s, 1, Len(s) - 1))
    ELSE s

trim(s) == trimEnd(trimStart(s))

RECURSIVE splitChars(_, _)
\* s.split(sep) for a one-character separator, or a regular expression that
\* is a class of single characters such as /[,\n]/: seps is the class.
splitChars(s, seps) ==
    IF \E i \in 1..Len(s) : s[i] \in seps
    THEN LET i == CHOOSE j \in 1..Len(s) :
                      /\ s[j] \in seps
                      /\ \A h \in 1..(j - 1) : s[h] \notin seps
         IN  <<SubSeq(s, 1, i - 1)>> \o splitChars(SubSeq(s, i + 1, Len(s)), seps)
    ELSE <<s>>

RECURSIVE splitRuns(_, _)
\* s.split(/\s+/): every maximal run of separator characters is one cut.
splitRuns(s, seps) ==
    IF \E i \in 1..Len(s) : s[i] \in seps
    THEN LET i == CHOOSE j \in 1..Len(s) :
                      /\ s[j] \in seps
                      /\ \A h \in 1..(j - 1) : s[h] \notin seps
             rest == SubSeq(s, i + 1, Len(s))
             skip(t) == IF \E j \in 1..Len(t) : t[j] \notin seps
                        THEN SubSeq(t, CHOOSE j \in 1..Len(t) :
                                           /\ t[j] \notin seps
                                           /\ \A h \in 1..(j - 1) : t[h] \in seps,
                                    Len(t))
                        ELSE <<>>
         IN  <<SubSeq(s, 1, i - 1)>> \o splitRuns(skip(rest), seps)
    ELSE <<s>>

RECURSIVE join(_, _)
\* parts.join(sep)
join(parts, sep) ==
    IF parts = <<>> THEN <<>>
    ELSE IF Len(parts) = 1 THEN parts[1]
    ELSE parts[1] \o sep \o join(Tail(parts), sep)

----
(* JavaScript objects: own properties in insertion order. *)

Prop(k, v) == [key |-> k, val |-> v]

hasOwnProperty(o, k) == \E i \in 1..Len(o) : o[i].key = k

\* o[k]; a missing property reads as undefined.
Get(o, k) ==
    IF hasOwnProperty(o, k)
    THEN o[CHOOSE i \in 1..Len(o) : o[i].key = k].val
    ELSE Undefined

\* o[k] = v
Put(o, k, v) ==
    IF hasOwnProperty(o, k)
    THEN [i \in 1..Len(o) |-> IF o[i].key = k THEN Prop(k, v) ELSE o[i]]
    ELSE Append(o, Prop(k, v))

\* o[Object.keys(o)[i]] with i counted from 0; past the end the key is
\* undefined and so is the value.
ValueAt(o, i) == IF i + 1 <= Len(o) THEN o[i + 1].val ELSE Undefined

----
(* The Date built-in: new Date(v), getTime(), toISOString().  Time values  *)
(* are kept in hours since 1970-01-01T00:00Z; tz is the local zone's       *)
(* offset from UTC in hours.                                               *)

IsDigit(c) == \E i \in 1..10 : Digits[i] = c

DigitVal(c) == (CHOOSE i \in 1..10 : Digits[i] = c) - 1

RECURSIVE StrToNat(_)
StrToNat(s) ==
    IF s = <<>> THEN 0
    ELSE StrToNat(SubSeq(s, 1, Len(s) - 1)) * 10 + DigitVal(s[Len(s)])

AllDigits(s) == \A i \in 1..Len(s) : IsDigit(s[i])

IsLeap(y) == (y % 4 = 0 /\ y % 100 # 0) \/ y % 400 = 0

DaysInMonth(y, m) ==
    IF m = 2 THEN (IF IsLeap(y) THEN 29 ELSE 28)
    ELSE IF m \in {4, 6, 9, 11} THEN 30 ELSE 31

\* MakeDay: days since the epoch of a proleptic Gregorian date.
DaysFromCivil(y, m, d) ==
    LET yy  == IF m <= 2 THEN y - 1 ELSE y
        era == yy \div 400
        yoe == yy - era * 400
        mp  == (m + 9) % 12
        doy == (153 * mp + 2) \div 5 + d - 1
        doe == yoe * 365 + yoe \div 4 - yoe \div 100 + doy
    IN  era * 146097 + doe - 719468

\* YearFromTime / MonthFromTime / DateFromTime of a day number.
CivilFromDays(z) ==
    LET zz  == z + 719468
        era == zz \div 146097
        doe == zz - era * 146097
        yoe == (doe - doe \div 1460 + doe \div 36524 - doe \div 146096) \div 365
        doy == doe - (365 * yoe + yoe \div 4 - yoe \div 100)
        mp  == (5 * doy + 2) \div 153
        d   == doy - (153 * mp + 2) \div 5 + 1
        m   == IF mp < 10 THEN mp + 3 ELSE mp - 9
        y   == yoe + era * 400 + (IF m <= 2 THEN 1 ELSE 0)
    IN  [y |-> y, m |-> m, d |-> d]

\* The date-only ISO form YYYY-MM-DD.
IsIsoDate(s) ==
    /\ Len(s) = 10
    /\ s[5] = "-" /\ s[8] = "-"
    /\ AllDigits(SubSeq(s, 1, 4)) /\ AllDigits(SubSeq(s, 6, 7)) /\ AllDigits(SubSeq(s, 9, 10))

\* The form MM/DD/YYYY, which every engine's fallback parser accepts.
IsSlashDate(s) ==
    /\ Len(s) = 10
    /\ s[3] = "/" /\ s[6] = "/"
    /\ AllDigits(SubSeq(s, 1, 2)) /\ AllDigits(SubSeq(s, 4, 5)) /\ AllDigits(SubSeq(s, 7, 10))

ValidYMD(y, m, d) == m \in 1..12 /\ d \in 1..DaysInMonth(y, m)

NaNDate == [valid |-> FALSE, t |-> 0]

\* new Date(v): a number is a time value in milliseconds; a date-only ISO
\* string is midnight UTC; any other recognised date string is midnight
\* local time; the rest is an Invalid Date (getTime() is NaN).
NewDate(v, z) ==
    CASE IsNum(v) -> [valid |-> TRUE, t |-> v.n \div 3600000]
      [] IsStr(v) /\ IsIsoDate(v.s) ->
            LET y == StrToNat(SubSeq(v.s, 1, 4))
                m == StrToNat(SubSeq(v.s, 6, 7))
                d == StrToNat(SubSeq(v.s, 9, 10))
            IN  IF ValidYMD(y, m, d)
                THEN [valid |-> TRUE, t |-> DaysFromCivil(y, m, d) * 24]
                ELSE NaNDate
      [] IsStr(v) /\ IsSlashDate(v.s) ->
            LET m == StrToNat(SubSeq(v.s, 1, 2))
                d == StrToNat(SubSeq(v.s, 4, 5))
                y == StrToNat(SubSeq(v.s, 7, 10))
            IN  IF ValidYMD(y, m, d)
                THEN [valid |-> TRUE, t |-> DaysFromCivil(y, m, d) * 24 - z]
                ELSE NaNDate
      [] OTHER -> NaNDate

Pad(n, width) ==
    LET ds == NatToStr(n)
    IN  [i \in 1..(width - Len(ds)) |-> "0"] \o ds

\* toISOString().split("T")[0]: the UTC calendar date of the time value.
toISODate(t) ==
    LET c == CivilFromDays(t \div 24)
    IN  Pad(c.y, 4) \o <<"-">> \o Pad(c.m, 2) \o <<"-">> \o Pad(c.d, 2)

\* const parsedDate = new Date(rawDOB);
\* !isNaN(parsedDate.getTime()) ? parsedDate.toISOString().split("T")[0] : rawDOB
normalizeDate(rawDOB, z) ==
    LET parsedDate == NewDate(rawDOB, z)
    IN  IF parsedDate.valid THEN Str(toISODate(parsedDate.t)) ELSE rawDOB

----
(* ContactDataProcessor: the header resolver and the three revisions of    *)
(* formatRow.  A call returns [threw, rec]: threw is TRUE when the call    *)
(* raises a TypeError, rec is the record it returns otherwise.             *)

Returned(rec) == [threw |-> FALSE, rec |-> rec]

Thrown == [threw |-> TRUE, rec |-> <<>>]

\* Object.keys(row).find(key => key.toLowerCase().includes(columnName.toLowerCase()))
\* then row[foundColumn], or "" when no key matches.
getColumnValue(r, columnName) ==
    LET wanted == toLowerCase(columnName)
        hits   == {i \in 1..Len(r) : includes(toLowerCase(r[i].key), wanted)}
    IN  IF hits # {}
        THEN r[CHOOSE i \in hits : \A j \in hits : i <= j].val
        ELSE EmptyStr

isDateOfBirthField(columnName) ==
    \E keyword \in {W_birth, W_dob, W_dateofbirth, W_birthdate} :
        includes(toLowerCase(columnName), keyword)

isPhoneField(columnName) ==
    \E keyword \in {W_phone, W_mobile, W_contact, W_telephone} :
        includes(toLowerCase(columnName), keyword)

\* fullName = first + " " + last; if (fullName.trim()) { split(" ") ... }
splitFullName(first, lastv) ==
    LET fullName  == ToStr(first) \o <<" ">> \o ToStr(lastv)
        nameParts == splitChars(trim(fullName), {" "})
    IN  IF trim(fullName) # <<>>
        THEN [FirstName |-> Str(nameParts[1]),
              LastName  |-> Str(join(Tail(nameParts), <<" ">>))]
        ELSE [FirstName |-> EmptyStr, LastName |-> EmptyStr]

RECURSIVE passthroughOverwriting(_, _, _)
\* passthroughAll without the hasOwnProperty test.
passthroughOverwriting(result, r, i) ==
    IF i > Len(r) THEN result
    ELSE passthroughOverwriting(Put(result, r[i].key, r[i].val), r, i + 1)

RECURSIVE passthroughAll(_, _, _)
\* Object.keys(row).forEach(key => { if (!result.hasOwnProperty(key)) result[key] = row[key] })
passthroughAll(result, r, i) ==
    IF i > Len(r) THEN result
    ELSE passthroughAll(
            IF ~hasOwnProperty(result, r[i].key)
            THEN Put(result, r[i].key, r[i].val)
            ELSE result,
            r, i + 1)

\* formatRow, revision "keyword".
formatRowKeyword(r, z) ==
    LET name    == splitFullName(getColumnValue(r, W_FirstName), getColumnValue(r, W_LastName))
        rawDOB  == getColumnValue(r, W_DateRegistered)
        DateOfBirth == IF Truthy(rawDOB) THEN normalizeDate(rawDOB, z) ELSE EmptyStr
        result  == << Prop(K_FirstName, name.FirstName),
                      Prop(K_LastName, name.LastName),
                      Prop(K_Email, getColumnValue(r, K_Email)),
                      Prop(K_Phone, getColumnValue(r, W_PhoneNumber)),
                      Prop(K_Street, OrEmpty(getColumnValue(r, K_Street))),
                      Prop(K_City, OrEmpty(getColumnValue(r, K_City))),
                      Prop(K_ProvinceState, OrEmpty(getColumnValue(r, K_ProvinceState))),
                      Prop(K_PostalCodeZip, OrEmpty(getColumnValue(r, K_PostalCodeZip))),
                      Prop(K_DateOfBirth, DateOfBirth),
                      Prop(K_BorrowerStage, Str(DEFAULT_STAGE)),
                      Prop(K_PartnerType, getColumnValue(r, W_Profession)),
                      Prop(K_LeadSource, EmptyStr),
                      Prop(K_Campaign, EmptyStr),
                      Prop(K_TempNote, getColumnValue(r, W_Tag)),
                      Prop(K_FirmName, getColumnValue(r, W_CompanyName)) >>
    IN  Returned(passthroughAll(result, r, 1))

RECURSIVE detectDateOfBirth(_, _, _, _)
\* let DateOfBirth = ""; Object.keys(row).forEach(key => { if (isDateOfBirthField(key)) ... })
\* every matching key assigns, so the last one stands.
detectDateOfBirth(r, z, i, DateOfBirth) ==
    IF i > Len(r) THEN DateOfBirth
    ELSE detectDateOfBirth(r, z, i + 1,
            IF isDateOfBirthField(r[i].key)
            THEN normalizeDate(r[i].val, z)
            ELSE DateOfBirth)

RECURSIVE detectPhone(_, _, _)
\* let Phone = ""; Object.keys(row).forEach(key => { if (isPhoneField(key)) Phone = row[key] })
detectPhone(r, i, Phone) ==
    IF i > Len(r) THEN Phone
    ELSE detectPhone(r, i + 1, IF isPhoneField(r[i].key) THEN r[i].val ELSE Phone)

RECURSIVE passthroughNonEmpty(_, _, _)
\* if (!result.hasOwnProperty(key) && row[key] && row[key].trim() !== "") result[key] = row[key]
\* row[key].trim is not a function when row[key] is a number.
passthroughNonEmpty(result, r, i) ==
    IF i > Len(r) THEN Returned(result)
    ELSE IF hasOwnProperty(result, r[i].key) \/ ~Truthy(r[i].val)
         THEN passthroughNonEmpty(result, r, i + 1)
    ELSE IF ~IsStr(r[i].val) THEN Thrown
    ELSE passthroughNonEmpty(
            IF trim(r[i].val.s) # <<>>
            THEN Put(result, r[i].key, r[i].val)
            ELSE result,
            r, i + 1)

\* formatRow, revision "heuristic".
formatRowHeuristic(r, z) ==
    LET name    == splitFullName(getColumnValue(r, W_FirstName), getColumnValue(r, W_LastName))
        result  == << Prop(K_FirstName, name.FirstName),
                      Prop(K_LastName, name.LastName),
                      Prop(K_Email, getColumnValue(r, K_Email)),
                      Prop(K_Phone, detectPhone(r, 1, EmptyStr)),
                      Prop(K_Street, OrEmpty(getColumnValue(r, K_Street))),
                      Prop(K_City, OrEmpty(getColumnValue(r, K_City))),
                      Prop(K_ProvinceState, OrEmpty(getColumnValue(r, K_Province))),
                      Prop(K_PostalCodeZip, OrEmpty(getColumnValue(r, K_PostalCode))),
                      Prop(K_DateOfBirth, detectDateOfBirth(r, z, 1, EmptyStr)),
                      Prop(K_BorrowerStage, Str(DEFAULT_STAGE)),
                      Prop(K_PartnerType, getColumnValue(r, W_Profession)),
                      Prop(K_LeadSource, EmptyStr),
                      Prop(K_Campaign, EmptyStr),
                      Prop(K_TempNote, getColumnValue(r, W_Tag)),
                      Prop(K_FirmName, getColumnValue(r, W_CompanyName)) >>
    IN  passthroughNonEmpty(result, r, 1)

\* nameParts = row[keys[0]].trim().split(" ");
\* FirstName = nameParts.length > 1 ? nameParts[0] : row[keys[0]];
\* LastName  = nameParts.length > 1 ? nameParts.slice(1).join(" ") : "";
splitFirstColumn(v) ==
    LET nameParts == splitChars(trim(v.s), {" "})
    IN  IF Len(nameParts) > 1
        THEN [FirstName |-> Str(nameParts[1]),
              LastName  |-> Str(join(Tail(nameParts), <<" ">>))]
        ELSE [FirstName |-> v, LastName |-> EmptyStr]

\* spaceParts.pop() || "", three times, then spaceParts.join(" ").
splitAddressBySpace(a) ==
    LET spaceParts == splitRuns(a, WhiteSpace)
        n == Len(spaceParts)
        fromEnd(k) == IF n >= k THEN Str(spaceParts[n - k + 1]) ELSE EmptyStr
    IN  [PostalCode |-> fromEnd(1),
         Province   |-> fromEnd(2),
         City       |-> fromEnd(3),
         Address    |-> Str(join(SubSeq(spaceParts, 1, n - 3), <<" ">>))]

\* splitAddress taking the whitespace split for three parts as well.
splitAddressUpToThree(a) ==
    LET raw == splitChars(a, {",", "\n"})
        addressParts == [i \in 1..Len(raw) |-> trim(raw[i])]
    IN  IF Len(addressParts) <= 3
        THEN splitAddressBySpace(a)
        ELSE [Address    |-> Str(addressParts[1]),
              City       |-> Str(addressParts[2]),
              Province   |-> Str(addressParts[3]),
              PostalCode |-> IF Len(addressParts) > 3 THEN Str(addressParts[4]) ELSE EmptyStr]

\* addressParts = row["Address"].split(/[,\n]/).map(part => part.trim());
\* fewer than 3 parts: the whitespace split; else the parts by position.
splitAddress(a) ==
    LET raw == splitChars(a, {",", "\n"})
        addressParts == [i \in 1..Len(raw) |-> trim(raw[i])]
    IN  IF Len(addressParts) < 3
        THEN splitAddressBySpace(a)
        ELSE [Address    |-> Str(addressParts[1]),
              City       |-> Str(addressParts[2]),
              Province   |-> Str(addressParts[3]),
              PostalCode |-> IF Len(addressParts) > 3 THEN Str(addressParts[4]) ELSE EmptyStr]

\* FILE_CONSTANTS.VALID_STAGES.includes(stage) ? stage : FILE_CONSTANTS.DEFAULT_STAGE
validStage(stage) ==
    IF IsStr(stage) /\ \E i \in 1..Len(VALID_STAGES) : VALID_STAGES[i] = stage.s
    THEN stage
    ELSE Str(DEFAULT_STAGE)

NoAddress == [Address |-> EmptyStr, City |-> EmptyStr, Province |-> EmptyStr, PostalCode |-> EmptyStr]

\* formatRow, revision "positional".  row[keys[0]].trim and row["Address"].split
\* are not functions when the cell is a number.
formatRowPositional(r, z) ==
    LET c0   == ValueAt(r, 0)
        c1   == ValueAt(r, 1)
        addr == Get(r, K_Address)
        name == IF Truthy(c0) THEN splitFirstColumn(c0)
                ELSE [FirstName |-> EmptyStr, LastName |-> EmptyStr]
        DateOfBirth == IF Truthy(c1) THEN normalizeDate(Str(ToStr(c1)), z) ELSE EmptyStr
        a    == IF Truthy(addr) THEN splitAddress(addr.s) ELSE NoAddress
    IN  IF (Truthy(c0) /\ ~IsStr(c0)) \/ (Truthy(addr) /\ ~IsStr(addr))
        THEN Thrown
        ELSE Returned(<< Prop(K_FirstName, name.FirstName),
                         Prop(K_LastName, name.LastName),
                         Prop(K_Email, OrEmpty(ValueAt(r, 3))),
                         Prop(K_Phone, OrEmpty(ValueAt(r, 2))),
                         Prop(K_Address, a.Address),
                         Prop(K_City, a.City),
                         Prop(K_Province, a.Province),
                         Prop(K_PostalCode, a.PostalCode),
                         Prop(K_DateOfBirth, DateOfBirth),
                         Prop(K_BorrowerStage, validStage(Get(r, K_BorrowerStage))),
                         Prop(K_PartnerType, OrEmpty(Get(r, K_PartnerType))),
                         Prop(K_LeadSource, OrEmpty(Get(r, K_LeadSource))),
                         Prop(K_Campaign, OrEmpty(Get(r, K_Campaign))) >>)

Revisions == {"keyword", "positional", "heuristic"}

\* this.formatRow(row) in the revision deployed.
formatRow(rv, r, z) ==
    CASE rv = "keyword"    -> formatRowKeyword(r, z)
      [] rv = "positional" -> formatRowPositional(r, z)
      [] OTHER             -> formatRowHeuristic(r, z)

----
(* Column headers of the input sheets. *)

H_FirstName == <<"F","i","r","s","t"," ","n","a","m","e">>

H_LastName == <<"L","a","s","t"," ","n","a","m","e">>

H_DateOfBirth == <<"D","a","t","e"," ","o","f"," ","B","i","r","t","h">>

H_Birthday == <<"B","i","r","t","h","d","a","y">>

H_Notes == <<"N","o","t","e","s">>

H_WorkEmail == <<"W","o","r","k"," ","E","m","a","i","l">>

H_HomePhone == <<"H","o","m","e"," ","P","h","o","n","e">>

H_Mobile == <<"M","o","b","i","l","e">>

NameValues ==
    { <<"J","a","n","e"," ","D","o","e">>,
      <<"M","a","d","o","n","n","a">>,
      <<"J","a","n","e","\t","D","o","e">>,
      <<"M","a","r","y"," ","A","n","n"," ","L","e","e">> }

DateValues ==
    { <<"1","9","9","0","-","0","5","-","1","4">>,
      <<"0","5","/","1","4","/","1","9","9","0">>,
      <<"0","3","/","0","1","/","2","0","0","0">>,
      <<"n","o","t"," ","a"," ","d","a","t","e">>,
      <<>> }

AddressValues ==
    { <<"T","o","w","n"," ","O","N"," ","A","1","B"," ">>,
      <<"1","2","3"," ","M","a","i","n"," ","S","t",","," ","S","p","r","i","n","g","f","i","e","l","d",","," ","O","N",","," ","A","1","B","2","C","3">>,
      <<"1","2","3"," ","M","a","i","n"," ","S","t"," ","S","p","r","i","n","g","f","i","e","l","d"," ","O","N"," ","A","1","B","2","C","3">>,
      <<"1"," ","E","l","m","\n","T","o","w","n","\n","O","N">>,
      <<"S","p","r","i","n","g","f","i","e","l","d",","," ","O","N">>,
      <<"B","o","x"," ","9">> }

StageValues ==
    { <<"C","l","i","e","n","t">>,
      <<"c","l","i","e","n","t">>,
      <<"C","l","i","e","n","t"," ">>,
      <<"L","e","a","d">> }

NoteValues ==
    { <<"v","i","p">>,
      <<" ">>,
      <<>> }

\* The cells a row is drawn from: each header with the values that
\* exercise the code that reads it, a numeric cell among them.
Cells ==
    {Prop(H_FirstName, Str(v)) : v \in NameValues} \cup {Prop(H_FirstName, Num(7))}
    \cup {Prop(H_LastName, Str(<<"D","o","e">>))}
    \cup {Prop(H_DateOfBirth, Str(v)) : v \in DateValues}
    \cup {Prop(H_Birthday, Str(<<"1","9","8","5","-","1","2","-","3","1">>))}
    \cup {Prop(K_Address, Str(v)) : v \in AddressValues} \cup {Prop(K_Address, Num(5))}
    \cup {Prop(K_BorrowerStage, Str(v)) : v \in StageValues}
    \cup {Prop(H_Notes, Str(v)) : v \in NoteValues} \cup {Prop(H_Notes, Num(42))}
    \cup {Prop(K_Campaign, Str(<<"F","a","l","l">>))}
    \cup {Prop(K_Email, Str(<<"a","@","x",".","i","o">>))}
    \cup {Prop(H_WorkEmail, Str(<<"b","@","x",".","i","o">>))}
    \cup {Prop(H_HomePhone, Str(<<"5","5","5","-","0","1","0","0">>))}
    \cup {Prop(H_Mobile, Str(<<"5","5","5","-","0","1","9","9">>))}

\* Columns per row.
MaxCols == 2

\* A RawRow: cells under pairwise distinct headers, in column order.
RowsOfLen(n) ==
    {r \in [1..n -> Cells] : \A i, j \in 1..n : i < j => r[i].key # r[j].key}

\* One sheet wide enough for every positional column to be present.
WideRow == <<Prop(H_FirstName, Str(<<"J","a","n","e"," ","D","o","e">>)),
             Prop(H_DateOfBirth, Str(<<"1","9","9","0","-","0","5","-","1","4">>)),
             Prop(H_HomePhone, Str(<<"5","5","5","-","0","1","0","0">>)),
             Prop(K_Email, Str(<<"a","@","x",".","i","o">>)),
             Prop(H_Notes, Str(<<"v","i","p">>))>>

Rows == UNION {RowsOfLen(n) : n \in 0..MaxCols} \cup {WideRow}

\* The browser's zone, as hours east of UTC.
TZOffsets == {0, 2}

----
(* Files, and the state of the Home component. *)

NoFile == [kind |-> "none", rows |-> <<>>]

Sheet(rows) == [kind |-> "sheet", rows |-> rows]

\* Bytes that XLSX.read cannot parse.
Corrupt == [kind |-> "corrupt", rows |-> <<>>]

Null == [set |-> FALSE, data |-> <<>>]

Data(d) == [set |-> TRUE, data |-> d]

RowJane == <<Prop(H_FirstName, Str(<<"J","a","n","e"," ","D","o","e">>)),
             Prop(K_Email, Str(<<"a","@","x",".","i","o">>))>>

RowMadonna == <<Prop(H_FirstName, Str(<<"M","a","d","o","n","n","a">>)),
                Prop(H_Notes, Str(<<"v","i","p">>))>>

RowNumeric == <<Prop(H_FirstName, Num(7))>>

FileRows == {RowJane, RowMadonna, RowNumeric}

\* Data rows per sheet.
MaxRows == 2

\* Reads in flight at once.
MaxInFlight == 2

Sheets == UNION {{Sheet(rs) : rs \in [1..n -> FileRows]} : n \in 0..MaxRows}

\* The files offered to the file picker.
UIFiles == {Sheet(<<RowJane, RowMadonna>>), Sheet(<<RowMadonna>>),
            Sheet(<<RowJane, RowNumeric>>), Sheet(<<>>), Corrupt}

RECURSIVE mapRowsSkipRepeats(_, _, _)
\* mapRows with a row equal to its predecessor merged into it.
mapRowsSkipRepeats(rows, rv, z) ==
    IF rows = <<>> THEN Returned(<<>>)
    ELSE LET h == formatRow(rv, Head(rows), z)
             t == mapRowsSkipRepeats(Tail(rows), rv, z)
         IN  IF h.threw \/ t.threw THEN Thrown
             ELSE IF Len(rows) > 1 /\ rows[1] = rows[2] THEN t
             ELSE Returned(<<h.rec>> \o t.rec)

RECURSIVE mapRows(_, _, _)
\* rawData.map(row => this.formatRow(row)); a throw in any call ends the map.
mapRows(rows, rv, z) ==
    IF rows = <<>> THEN Returned(<<>>)
    ELSE LET h == formatRow(rv, Head(rows), z)
         IN  IF h.threw THEN Thrown
             ELSE LET t == mapRows(Tail(rows), rv, z)
                  IN  IF t.threw THEN Thrown ELSE Returned(<<h.rec>> \o t.rec)

Resolved(data) == [ok |-> TRUE, data |-> data]

Rejected == [ok |-> FALSE, data |-> <<>>]

\* reader.onload: try { XLSX.read; sheet_to_json; map; resolve } catch { reject }
onload(f, rv, z) ==
    IF f.kind = "corrupt" THEN Rejected
    ELSE LET formattedData == mapRows(f.rows, rv, z)
         IN  IF formattedData.threw THEN Rejected ELSE Resolved(formattedData.rec)

\* reader.onerror: reject(new Error("Error reading file"))
onerror == Rejected

\* afterAwait with a catch block that clears the result.
afterAwaitClearing(pd, outcome) == IF outcome.ok THEN Data(outcome.data) ELSE Null

\* handleProcessFile after the await: setProcessedData(data), or the catch
\* block, which logs and sets nothing.
afterAwait(pd, outcome) == IF outcome.ok THEN Data(outcome.data) ELSE pd

\* The handler that ran last; for the two halves of handleProcessFile, with
\* the file and the result it found.
Event(e) == [event |-> e, input |-> NoFile, fileBefore |-> NoFile, pdBefore |-> Null]

Settled(outcome, f) ==
    [event |-> IF outcome.ok THEN "resolve" ELSE "reject",
     input |-> f, fileBefore |-> file, pdBefore |-> processedData]

NotRun == [run |-> FALSE, threw |-> FALSE, rec |-> <<>>]

InFlight == BagCardinality(reads)

\* handleFileUpload: setFile(event.target.files[0]); a cancelled picker
\* leaves files[0] undefined.
handleFileUpload(f) ==
    /\ file' = f
    /\ last' = Event("upload")
    /\ UNCHANGED <<rev, tz, processedData, reads, row, out>>

\* handleProcessFile up to the await: if (!file) return; processFile(file)
\* starts reader.readAsArrayBuffer(file).
handleProcessFile ==
    /\ file.kind # "none"
    /\ InFlight < MaxInFlight
    /\ reads' = reads (+) SetToBag({file})
    /\ last' = [Event("process") EXCEPT !.fileBefore = file, !.pdBefore = processedData]
    /\ UNCHANGED <<rev, tz, file, processedData, row, out>>

\* The promise of the read of f settles with outcome and handleProcessFile
\* resumes after its await.
settle(f, outcome) ==
    /\ reads' = reads (-) SetToBag({f})
    /\ processedData' = afterAwait(processedData, outcome)
    /\ last' = Settled(outcome, f)
    /\ UNCHANGED <<rev, tz, file, row, out>>

\* A read completes: reader.onload runs and resolves or rejects.
readerOnLoad(f) == BagIn(f, reads) /\ settle(f, onload(f, rev, tz))

\* A read fails: reader.onerror runs and rejects.
readerOnError(f) == BagIn(f, reads) /\ settle(f, onerror)

\* handleDownloadCSV: if (!processedData) return; exportToCSV(processedData)
handleDownloadCSV ==
    /\ processedData.set
    /\ last' = Event("download")
    /\ UNCHANGED <<rev, tz, file, processedData, reads, row, out>>

\* this.formatRow(row) on one row.
applyFormatRow ==
    /\ ~out.run
    /\ LET result == formatRow(rev, row, tz)
       IN  out' = [run |-> TRUE, threw |-> result.threw, rec |-> result.rec]
    /\ UNCHANGED <<rev, tz, file, processedData, reads, last, row>>

----
(* Specifications. *)

\* The Home component after its first render.
Init ==
    /\ rev \in Revisions
    /\ tz \in TZOffsets
    /\ file = NoFile
    /\ processedData = Null
    /\ reads = EmptyBag
    /\ last = Event("render")
    /\ row = <<>>
    /\ out = NotRun

Uploads == \E f \in UIFiles \cup {NoFile} : handleFileUpload(f)

Loads == \E f \in BagToSet(reads) : readerOnLoad(f)

Errors == \E f \in BagToSet(reads) : readerOnError(f)

Next ==
    \/ Uploads
    \/ handleProcessFile
    \/ Loads
    \/ Errors
    \/ handleDownloadCSV

Spec == Init /\ [][Next]_vars

\* processFile on each sheet: one file is selected, and processed any
\* number of times.
InitFile ==
    /\ rev \in Revisions
    /\ tz \in TZOffsets
    /\ file \in Sheets \cup {Corrupt}
    /\ processedData = Null
    /\ reads = EmptyBag
    /\ last = Event("upload")
    /\ row = <<>>
    /\ out = NotRun

NextFile ==
    \/ handleProcessFile
    \/ Loads
    \/ Errors
    \/ handleDownloadCSV

SpecFile == InitFile /\ [][NextFile]_vars

\* formatRow on each row.
InitRow ==
    /\ rev \in Revisions
    /\ tz \in TZOffsets
    /\ file = NoFile
    /\ processedData = Null
    /\ reads = EmptyBag
    /\ last = Event("render")
    /\ row \in Rows
    /\ out = NotRun

NextRow == applyFormatRow

SpecRow == InitRow /\ [][NextRow]_vars

----
(* Properties. *)

FormatOk == out.run /\ ~out.threw

StageNames == {ST_ActiveLead, ST_BusinessPartnerOnly, ST_Prospect, ST_Client}

HasColumn(r, header) == \E i \in 1..Len(r) : r[i].key = header

(* C1: whenever processFile resolves for a sheet of N data rows, the result *)
(* has exactly N records and the i-th record is formatRow of the i-th row,  *)
(* for every N >= 0 and in every revision of formatRow.                     *)
RowCountPreserved ==
    last.event = "resolve" =>
        /\ processedData.set
        /\ Len(processedData.data) = Len(last.input.rows)
        /\ \A i \in 1..Len(last.input.rows) :
              /\ ~formatRow(rev, last.input.rows[i], tz).threw
              /\ processedData.data[i] = formatRow(rev, last.input.rows[i], tz).rec

\* A sheet of two equal rows resolved to two records.
RowCountPreservedWitness ==
    /\ last.event = "resolve"
    /\ Len(last.input.rows) = MaxRows
    /\ last.input.rows[1] = last.input.rows[2]
    /\ Len(processedData.data) = MaxRows

(* C2: the "BorrowerStage.Name" field of every record formatRow returns is  *)
(* one of Active Lead, Business Partner Only, Prospect, Client, whatever the *)
(* row holds under a header of that name; the record has that field once,   *)
(* so the passthrough of unmapped columns has not replaced it.              *)
StageAlwaysEnumerated ==
    FormatOk =>
        /\ Cardinality({i \in 1..Len(out.rec) : out.rec[i].key = K_BorrowerStage}) = 1
        /\ IsStr(Get(out.rec, K_BorrowerStage))
        /\ Get(out.rec, K_BorrowerStage).s \in StageNames

\* A row whose "BorrowerStage.Name" column holds text outside the
\* enumeration went through the revision with the permissive passthrough.
StageAlwaysEnumeratedWitness ==
    /\ FormatOk
    /\ rev = "keyword"
    /\ HasColumn(row, K_BorrowerStage)
    /\ Get(row, K_BorrowerStage).s \notin StageNames
    /\ Len(out.rec) > 15

(* C10: when processFile rejects (read error, or parsing or mapping throws) *)
(* handleProcessFile leaves the current file and the current result as they *)
(* were, a result of an earlier run included: neither the Process click     *)
(* that starts the read nor the step that handles the rejection changes     *)
(* them, and no partial result is stored.                                   *)
RejectLeavesState ==
    last.event \in {"process", "reject"} =>
        /\ file = last.fileBefore
        /\ processedData = last.pdBefore

\* A run was rejected while an earlier run's result was on display.
RejectLeavesStateWitness ==
    /\ last.event = "reject"
    /\ last.pdBefore.set
    /\ processedData.set

(* C3: the record's stage is the row's raw stage when that is exactly one  *)
(* of the four enumerated values, and "Prospect" otherwise; a row whose     *)
(* stage is "Client" yields "Client".                                       *)
StageValidatorKeepsValid ==
    FormatOk =>
        LET raw == Get(row, K_BorrowerStage)
        IN  Get(out.rec, K_BorrowerStage) =
                IF IsStr(raw) /\ raw.s \in StageNames THEN raw ELSE Str(ST_Prospect)

\* The headers a revision's field mappers look for.
MapperKeywords(rv) ==
    IF rv = "keyword"
    THEN {W_FirstName, W_LastName, W_DateRegistered, K_Street, K_City, K_ProvinceState,
          K_PostalCodeZip, K_Email, W_PhoneNumber, W_CompanyName, W_Profession, W_Tag}
    ELSE {W_FirstName, W_LastName, K_Street, K_City, K_Province, K_PostalCode, K_Email,
          W_CompanyName, W_Profession, W_Tag,
          W_birth, W_dob, W_dateofbirth, W_birthdate,
          W_phone, W_mobile, W_contact, W_telephone}

\* Column i of row r is read by some field mapper of revision rv: by keyword,
\* or, in the positional revision, by position or by exact header.
Recognized(rv, r, i) ==
    IF rv = "positional"
    THEN i <= 4 \/ r[i].key \in {K_Address, K_BorrowerStage, K_PartnerType,
                                 K_LeadSource, K_Campaign}
    ELSE \E kw \in MapperKeywords(rv) :
            includes(toLowerCase(r[i].key), toLowerCase(kw))

(* C4: every column of the row that no field mapper recognizes is in the    *)
(* output record under its original header with its original value.         *)
UnmappedColumnsKept ==
    FormatOk =>
        \A i \in 1..Len(row) :
            ~Recognized(rev, row, i) =>
                /\ hasOwnProperty(out.rec, row[i].key)
                /\ Get(out.rec, row[i].key) = row[i].val

\* The name string a revision resolves before splitting it.
ResolvedName(rv, r) ==
    IF rv = "positional" THEN ValueAt(r, 0)
    ELSE Str(ToStr(getColumnValue(r, W_FirstName)) \o <<" ">>
             \o ToStr(getColumnValue(r, W_LastName)))

(* C5: the resolved name is split at its first whitespace: FirstName is the *)
(* text before it and LastName the text after it; a name with no internal   *)
(* whitespace is FirstName as a whole and LastName is empty.                *)
NameSplitAtFirstWhitespace ==
    (FormatOk /\ IsStr(ResolvedName(rev, row)) /\ trim(ResolvedName(rev, row).s) # <<>>) =>
        LET whole == ResolvedName(rev, row).s
            name  == trim(whole)
            ws    == {i \in 1..Len(name) : name[i] \in WhiteSpace}
            p     == CHOOSE i \in ws : \A j \in ws : i <= j
            first == Get(out.rec, K_FirstName)
            lastn == Get(out.rec, K_LastName)
        IN  IF ws # {}
            THEN /\ first = Str(SubSeq(name, 1, p - 1))
                 /\ lastn = Str(SubSeq(name, p + 1, Len(name)))
            ELSE /\ first \in {Str(name), Str(whole)}
                 /\ lastn = EmptyStr

\* The columns a revision takes the date of birth from.
DateColumns(rv, r) ==
    CASE rv = "positional" -> {i \in 1..Len(r) : i = 2}
      [] rv = "keyword" ->
            {i \in 1..Len(r) : includes(toLowerCase(r[i].key), toLowerCase(W_DateRegistered))}
      [] OTHER -> {i \in 1..Len(r) : isDateOfBirthField(r[i].key)}

\* The column the revision resolves among them: the first for the keyword
\* lookup, the last for the forEach scan.
DateColumn(rv, r) ==
    LET cols == DateColumns(rv, r)
    IN  IF rv = "heuristic"
        THEN CHOOSE i \in cols : \A j \in cols : j <= i
        ELSE CHOOSE i \in cols : \A j \in cols : i <= j

\* The calendar date a string names, as <<year, month, day>>.
CalendarDate(s) ==
    IF IsIsoDate(s)
    THEN <<StrToNat(SubSeq(s, 1, 4)), StrToNat(SubSeq(s, 6, 7)), StrToNat(SubSeq(s, 9, 10))>>
    ELSE <<StrToNat(SubSeq(s, 7, 10)), StrToNat(SubSeq(s, 1, 2)), StrToNat(SubSeq(s, 4, 5))>>

NamesDate(s) ==
    /\ IsIsoDate(s) \/ IsSlashDate(s)
    /\ ValidYMD(CalendarDate(s)[1], CalendarDate(s)[2], CalendarDate(s)[3])

RenderYMD(ymd) == Pad(ymd[1], 4) \o <<"-">> \o Pad(ymd[2], 2) \o <<"-">> \o Pad(ymd[3], 2)

(* C6: DateOfBirth is the YYYY-MM-DD rendering of the date column's value   *)
(* when that value names a calendar date, the raw value when it does not,   *)
(* and empty when the row has no date column; formatRow does not throw on   *)
(* account of the date.                                                     *)
DateOfBirthNormalized ==
    (out.run /\ \A i \in 1..Len(row) : IsStr(row[i].val)) =>
        /\ ~out.threw
        /\ LET dob == Get(out.rec, K_DateOfBirth)
               raw == row[DateColumn(rev, row)].val
           IN  IF DateColumns(rev, row) = {} THEN dob = EmptyStr
               ELSE IF NamesDate(raw.s) THEN dob = Str(RenderYMD(CalendarDate(raw.s)))
               ELSE dob = raw

\* The pieces of s between the characters of seps, in order, by position.
CutsOf(s, seps) == {i \in 1..Len(s) : s[i] \in seps}

NthCut(cuts, k) == CHOOSE c \in cuts : Cardinality({d \in cuts : d <= c}) = k

NthPiece(s, seps, k) ==
    LET cuts == CutsOf(s, seps)
        from == IF k = 1 THEN 1 ELSE NthCut(cuts, k - 1) + 1
        to   == IF k > Cardinality(cuts) THEN Len(s) ELSE NthCut(cuts, k) - 1
    IN  SubSeq(s, from, to)

\* The maximal runs of non-whitespace of s, as <<from, to>>.
WordsOf(s) ==
    {w \in (1..Len(s)) \X (1..Len(s)) :
        /\ w[1] <= w[2]
        /\ \A i \in w[1]..w[2] : s[i] \notin WhiteSpace
        /\ w[1] = 1 \/ s[w[1] - 1] \in WhiteSpace
        /\ w[2] = Len(s) \/ s[w[2] + 1] \in WhiteSpace}

\* The tokens of s split on runs of whitespace: its words in order, with an
\* empty token before them when s begins with whitespace and one after them
\* when it ends with whitespace.
TokensOf(s) ==
    LET words == WordsOf(s)
        nth(k) == CHOOSE w \in words : Cardinality({v \in words : v[1] <= w[1]}) = k
    IN  (IF s[1] \in WhiteSpace THEN <<(<<>>)>> ELSE <<>>)
        \o [k \in 1..Cardinality(words) |-> SubSeq(s, nth(k)[1], nth(k)[2])]
        \o (IF s[Len(s)] \in WhiteSpace THEN <<(<<>>)>> ELSE <<>>)

TokenFromEnd(tokens, k) ==
    IF Len(tokens) >= k THEN tokens[Len(tokens) - k + 1] ELSE <<>>

ExampleAddress == <<"1","2","3"," ","M","a","i","n"," ","S","t",","," ","S","p","r","i","n","g","f","i","e","l","d",","," ","O","N",","," ","A","1","B","2","C","3">>

FirstMatch(r, keywords) ==
    LET hits == {i \in 1..Len(r) :
                    \E kw \in keywords : includes(toLowerCase(r[i].key), toLowerCase(kw))}
    IN  IF hits = {} THEN 0 ELSE CHOOSE i \in hits : \A j \in hits : i <= j

FirstMatchValue(r, keywords) ==
    IF FirstMatch(r, keywords) = 0 THEN EmptyStr ELSE r[FirstMatch(r, keywords)].val

(* C8: each keyword-resolved field of the record holds the value of the     *)
(* first header, in the row's key order, that contains the field's keyword  *)
(* case-insensitively (the date of birth after normalization), and the      *)
(* empty string when no header matches.                                     *)
FirstMatchingHeaderWins ==
    (FormatOk /\ rev = "heuristic" /\ \A i \in 1..Len(row) : Truthy(row[i].val)) =>
        /\ Get(out.rec, K_Email) = FirstMatchValue(row, {K_Email})
        /\ Get(out.rec, K_Phone) =
                FirstMatchValue(row, {W_phone, W_mobile, W_contact, W_telephone})
        /\ Get(out.rec, K_Street) = FirstMatchValue(row, {K_Street})
        /\ Get(out.rec, K_City) = FirstMatchValue(row, {K_City})
        /\ Get(out.rec, K_ProvinceState) = FirstMatchValue(row, {K_Province})
        /\ Get(out.rec, K_PostalCodeZip) = FirstMatchValue(row, {K_PostalCode})
        /\ Get(out.rec, K_FirmName) = FirstMatchValue(row, {W_CompanyName})
        /\ Get(out.rec, K_PartnerType) = FirstMatchValue(row, {W_Profession})
        /\ Get(out.rec, K_TempNote) = FirstMatchValue(row, {W_Tag})
        /\ Get(out.rec, K_DateOfBirth) \in
                {FirstMatchValue(row, {W_birth, W_dob, W_dateofbirth, W_birthdate}),
                 normalizeDate(FirstMatchValue(row, {W_birth, W_dob, W_dateofbirth, W_birthdate}), tz)}

(* C9: for every row of string and number cells formatRow returns a record; *)
(* no cell makes the mapping of the row throw.                              *)
FormatRowAlwaysReturns == out.run => ~out.threw

(* C11: in every reachable state of the Home component at most one          *)
(* processFile read is in flight: a Process click does not start a second   *)
(* read while an earlier one has neither resolved nor rejected.             *)
AtMostOneReadInFlight == InFlight <= 1

(* C12: whenever processedData is non-null, so that Download is offered, it *)
(* is the mapped result of the currently selected file: neither selecting   *)
(* another file nor the late completion of a read started for a previously  *)
(* selected file leaves another file's result stored.                       *)
StoredResultIsOfSelectedFile ==
    processedData.set =>
        /\ file.kind = "sheet"
        /\ onload(file, rev, tz) = Resolved(processedData.data)

====
